---- MODULE Spec2Model ----
(***************************************************************************)
(* BoolShapes: the shape library (assets.blend, assetsBackup.blend, the    *)
(* previews directory) and the Blender session (bpy.data objects, their    *)
(* modifiers and collections, selection, scenes) as the add-on's utility   *)
(* functions read and write them.                                          *)
(*                                                                         *)
(* Names are sequences of string tokens: "Cube.001_slice" is               *)
(* <<"Cube", ".001", "_slice">>.  Python's string concatenation is         *)
(* sequence concatenation, and Blender's unique naming of data-blocks      *)
(* (a numeric suffix on collision) is UniqueName.                          *)
(***************************************************************************)
EXTENDS Integers, Sequences, FiniteSets, TLC

\* ---------------------------------------------------------------- bounds
\* Objects alive in bpy.data at once.
MaxObjects == 4
\* Modifiers on one object's stack.
MaxMods == 2
\* Tokens of an object name that may still be sliced (names grow by "_slice").
MaxNameLen == 2
\* Scenes in bpy.data (the user's scene plus leaked preview scenes).
MaxScenes == 4
\* Calls of the add-on in one run.
MaxCalls == 4

VARIABLES
    dirs,         \* directories that exist: subset of {"assets", "previews"}
    assets,       \* assets.blend: [exists, objects (names of the stored shapes)]
    backup,       \* assetsBackup.blend: [exists, objects]
    previews,     \* file names in the previews directory
    objects,      \* bpy.data.objects: id -> object record
    selected,     \* ids selected in the view layer
    active,       \* view_layer.objects.active (0 is None)
    collections,  \* names in bpy.data.collections besides the scene collection
    scenes,       \* names in bpy.data.scenes
    windowScene,  \* bpy.context.window.scene / bpy.context.scene
    hasWindow,    \* FALSE in background mode: bpy.context.window is None
    solver_type,  \* scene.boolshapes.solver_type
    last,         \* the last call of the add-on and what it returned
    calls         \* calls made so far

vars == <<dirs, assets, backup, previews, objects, selected, active,
          collections, scenes, windowScene, hasWindow, solver_type, last, calls>>

\* ---------------------------------------------------------------- names
Suffixes == <<".001", ".002", ".003", ".004", ".005", ".006", ".007", ".008">>

IsSuffix(tok) == \E i \in 1..Len(Suffixes) : Suffixes[i] = tok

NameStem(name) ==
    IF Len(name) > 1 /\ IsSuffix(name[Len(name)])
    THEN SubSeq(name, 1, Len(name) - 1)
    ELSE name

\* The name Blender gives a data-block asked to be called `name` when the
\* names in `taken` are in use: the name itself when free, otherwise its stem
\* with the first free numeric suffix.
UniqueName(name, taken) ==
    IF name \notin taken
    THEN name
    ELSE LET stem == NameStem(name)
             n == CHOOSE i \in 1..Len(Suffixes) :
                      /\ Append(stem, Suffixes[i]) \notin taken
                      /\ \A j \in 1..(i - 1) : Append(stem, Suffixes[j]) \in taken
         IN Append(stem, Suffixes[n])

\* The default shapes written by the generator script (two of them).
DefaultShapes == {<<"Cube">>, <<"Cylinder">>}

Solvers == {"EXACT", "FAST"}

Operations == {"DIFFERENCE", "UNION", "INTERSECT"}

Origin == <<0, 0, 0>>

\* scene.cursor.location
cursor_location == <<1, 2, 3>>

NoFile == [exists |-> FALSE, objects |-> {}]

File(names) == [exists |-> TRUE, objects |-> names]

\* f"{shape_name}.png"
preview_path(shape_name) == Append(shape_name, ".png")

\* f.endswith('.png')
endswith_png(f) == Len(f) > 0 /\ f[Len(f)] = ".png"

DeletePngs_none(files) == files

\* os.listdir(previews_dir) with every '.png' file removed
DeletePngs(files) == {f \in files : ~endswith_png(f)}

\* ---------------------------------------------------------------- session
Ids == 1..MaxObjects

Live == DOMAIN objects

FreeIds == Ids \ Live

NewId == CHOOSE i \in FreeIds : \A j \in FreeIds : i <= j

NamesOf(objs) == {objs[i].name : i \in DOMAIN objs}

SessionNames == NamesOf(objects)

\* Objects of the view layer: linked to the scene directly or through the
\* boolean_cutters collection (a child of the scene collection).
InViewLayer(objs) == {i \in DOMAIN objs : objs[i].users_collection # {}}

\* bpy.data.objects.remove(o, do_unlink=True): the object goes and every
\* reference to it is cleared.
RemoveObject(objs, o) ==
    [i \in (DOMAIN objs) \ {o} |->
        [objs[i] EXCEPT !.modifiers =
            [k \in 1..Len(objs[i].modifiers) |->
                IF objs[i].modifiers[k].object = o
                THEN [objs[i].modifiers[k] EXCEPT !.object = 0]
                ELSE objs[i].modifiers[k]]]]

\* get_library_objects(): the names stored in assets.blend, none when the
\* file does not exist.
get_library_objects == IF assets.exists THEN assets.objects ELSE {}

\* bpy.data.libraries.load(..., link=False) of the shapes `names`: each gets
\* its library name made unique among the names in use in the session.
RECURSIVE LoadedNames(_, _)
LoadedNames(names, taken) ==
    IF names = {}
    THEN {}
    ELSE LET n == CHOOSE x \in names : TRUE
             u == UniqueName(n, taken)
         IN {u} \cup LoadedNames(names \ {n}, taken \cup {u})

\* A call of the add-on returns: `call` records its arguments and result.
Returned(call) ==
    /\ calls < MaxCalls
    /\ calls' = calls + 1
    /\ last' = call

\* ---------------------------------------------------------------- Init
\* The session of a freshly started Blender: one scene, nothing in it.
InitSession ==
    /\ objects = <<>>
    /\ selected = {}
    /\ active = 0
    /\ collections = {}
    /\ scenes = {<<"Scene">>}
    /\ windowScene = <<"Scene">>
    /\ solver_type = "EXACT"
    /\ last = [op |-> "none"]
    /\ calls = 0

\* The add-on directory as installed, or after the user or an earlier run
\* left files in it.
InitFiles ==
    /\ dirs \in {{}, {"assets", "previews"}}
    /\ backup \in IF "assets" \in dirs THEN {NoFile, File(DefaultShapes)} ELSE {NoFile}
    /\ assets \in IF "assets" \in dirs
                  THEN {NoFile, File(DefaultShapes), File({<<"Cube">>})}
                  ELSE {NoFile}
    /\ previews \in IF "previews" \in dirs
                    THEN {{}, {<<"Cube", ".png">>}, {<<"Old", ".png">>, <<"notes", ".txt">>}}
                    ELSE {{}}

\* The library as register() leaves it when the backup ships with the add-on.
InitRegistered ==
    /\ dirs = {"assets", "previews"}
    /\ backup = File(DefaultShapes)
    /\ assets = File({<<"Cube">>})
    /\ previews = {}

Init == InitSession /\ InitFiles /\ hasWindow \in BOOLEAN

InitBool == InitSession /\ InitRegistered /\ hasWindow = TRUE

\* ---------------------------------------------------------------- import
select_all_nothing(sel) == sel

\* bpy.ops.object.select_all(action='DESELECT')
select_all_deselect(sel) == {}

\* import_shape_from_library(shape_name)
import_shape_from_library(shape_name) ==
    /\ FreeIds # {}
    /\ IF ~assets.exists \/ shape_name \notin assets.objects
       THEN /\ Returned([op |-> "import_shape_from_library",
                          shape_name |-> shape_name, obj |-> 0])
            /\ UNCHANGED <<objects, selected, active>>
       ELSE LET id == NewId
                obj == [name |-> UniqueName(shape_name, SessionNames),
                        users_collection |-> {"Scene Collection"},
                        display_type |-> "TEXTURED",
                        location |-> cursor_location,
                        modifiers |-> <<>>]
            IN /\ objects' = (id :> obj) @@ objects
               /\ selected' = select_all_deselect(selected) \cup {id}
               /\ active' = id
               /\ Returned([op |-> "import_shape_from_library",
                             shape_name |-> shape_name, obj |-> id])
    /\ UNCHANGED <<dirs, assets, backup, previews, collections, scenes, windowScene,
                   hasWindow, solver_type>>

\* ---------------------------------------------------------------- booleans
ModNames(mods) == {mods[k].name : k \in 1..Len(mods)}

\* f"Bool_{operation}_{cutter.name}"
mod_name(operation, cutter_name) == <<"Bool_", operation, "_">> \o cutter_name

\* obj.modifiers.new(name, 'BOOLEAN') followed by the three assignments: the
\* modifier goes to the end of the stack under a name unique on the object.
modifiers_new(mods, name, operation, cutter, solver) ==
    Append(mods, [name |-> UniqueName(name, ModNames(mods)),
                  operation |-> operation,
                  object |-> cutter,
                  solver |-> solver])

\* The modifier bpy.ops.object.modifier_apply(modifier=name) finds on the
\* active object: the one carrying that name (0 when there is none).
ModIndex(mods, name) ==
    IF \E k \in 1..Len(mods) : mods[k].name = name
    THEN CHOOSE k \in 1..Len(mods) : mods[k].name = name
    ELSE 0

\* modifier_apply raises RuntimeError when no modifier has the name or the
\* modifier is disabled (a boolean whose operand object is None).
CanApply(mods, name) ==
    /\ ModIndex(mods, name) # 0
    /\ mods[ModIndex(mods, name)].object # 0

\* The stack after a successful modifier_apply: the modifier is baked into
\* the mesh and leaves the stack.
modifier_apply(mods, name) ==
    LET k == ModIndex(mods, name)
    IN SubSeq(mods, 1, k - 1) \o SubSeq(mods, k + 1, Len(mods))

\* get_or_create_cutters_collection()
get_or_create_cutters_collection(cols) == cols \cup {"boolean_cutters"}

\* move_to_cutters_collection(obj): unlinked from every collection using it,
\* then linked to boolean_cutters.
move_to_cutters_collection_keep(objs, cutter) ==
    [objs EXCEPT ![cutter].users_collection = @ \cup {"boolean_cutters"}]

move_to_cutters_collection(objs, cutter) ==
    [objs EXCEPT ![cutter].users_collection = {"boolean_cutters"}]

\* solver = the argument, or scene.boolshapes.solver_type when it is None
SolverOf(solver) == IF solver = "None" THEN solver_type ELSE solver

\* apply_boolean_operation(target, cutter, operation, destructive, solver).
\* Every object of the model is a mesh (it comes from the library or is the
\* copy of one), so the two early returns for a missing or non-mesh object
\* are not taken.  A destructive call applies the modifier that carries the
\* name asked for, which is not the added one when that name was taken.
apply_boolean_operation(target, cutter, operation, destructive, solver) ==
    /\ target # cutter
    /\ Len(objects[target].modifiers) < MaxMods
    /\ LET wanted == mod_name(operation, objects[cutter].name)
           mods == modifiers_new(objects[target].modifiers, wanted, operation, cutter,
                                 SolverOf(solver))
           added == mods[Len(mods)].name
           withMod == [objects EXCEPT ![target].modifiers = mods]
           call == [op |-> "apply_boolean_operation", target |-> target,
                    cutter |-> cutter, operation |-> operation,
                    destructive |-> destructive, solver |-> solver, added |-> added]
       IN IF destructive
          THEN /\ active' = target
               /\ IF CanApply(mods, wanted)
                  THEN /\ objects' = RemoveObject(
                              [withMod EXCEPT ![target].modifiers =
                                  modifier_apply(mods, wanted)], cutter)
                       /\ selected' = selected \ {cutter}
                       /\ Returned(call @@ [ok |-> TRUE])
                  ELSE /\ objects' = withMod
                       /\ selected' = selected
                       /\ Returned(call @@ [ok |-> FALSE])
               /\ UNCHANGED collections
          ELSE /\ collections' = get_or_create_cutters_collection(collections)
               /\ objects' = [move_to_cutters_collection(withMod, cutter)
                                 EXCEPT ![cutter].display_type = "BOUNDS"]
               /\ Returned(call @@ [ok |-> TRUE])
               /\ UNCHANGED <<selected, active>>
    /\ UNCHANGED <<dirs, assets, backup, previews, scenes, windowScene, hasWindow,
                   solver_type>>

target_copy_name_unchanged(target_name) == target_name

\* target.name + "_slice"
target_copy_name(target_name) == target_name \o <<"_slice">>

\* apply_slice_operation(target, cutter, destructive, solver).  The copy
\* inherits target's modifier stack; a destructive call applies each added
\* modifier by its own name (mod_intersect.name, mod_difference.name) and
\* passes over a failing application.
apply_slice_operation(target, cutter, destructive, solver) ==
    /\ target # cutter
    /\ FreeIds # {}
    /\ Len(objects[target].modifiers) < MaxMods
    /\ Len(objects[target].name) <= MaxNameLen
    /\ LET id == NewId
           s == SolverOf(solver)
           cname == objects[cutter].name
           \* target.copy(), renamed, linked to the scene collection
           copy0 == [objects[target] EXCEPT
                        !.name = UniqueName(target_copy_name(objects[target].name),
                                            SessionNames),
                        !.users_collection = {"Scene Collection"}]
           modsI == modifiers_new(copy0.modifiers, mod_name("INTERSECT", cname),
                                  "INTERSECT", cutter, s)
           modsD == modifiers_new(objects[target].modifiers,
                                  mod_name("DIFFERENCE", cname), "DIFFERENCE", cutter, s)
           nameI == modsI[Len(modsI)].name
           nameD == modsD[Len(modsD)].name
           withMods == [(id :> [copy0 EXCEPT !.modifiers = modsI]) @@ objects
                           EXCEPT ![target].modifiers = modsD]
           call == [op |-> "apply_slice_operation", target |-> target,
                    cutter |-> cutter, destructive |-> destructive, solver |-> solver,
                    copy |-> id, ok |-> TRUE]
       IN IF destructive
          THEN /\ objects' = RemoveObject(
                      [withMods EXCEPT
                          ![id].modifiers =
                              IF CanApply(modsI, nameI)
                              THEN modifier_apply(modsI, nameI) ELSE modsI,
                          ![target].modifiers =
                              IF CanApply(modsD, nameD)
                              THEN modifier_apply(modsD, nameD) ELSE modsD], cutter)
               /\ active' = target
               /\ selected' = selected \ {cutter}
               /\ Returned(call)
               /\ UNCHANGED collections
          ELSE /\ collections' = get_or_create_cutters_collection(collections)
               /\ objects' = [move_to_cutters_collection(withMods, cutter)
                                 EXCEPT ![cutter].display_type = "BOUNDS"]
               /\ Returned(call)
               /\ UNCHANGED <<selected, active>>
    /\ UNCHANGED <<dirs, assets, backup, previews, scenes, windowScene, hasWindow,
                   solver_type>>

\* ---------------------------------------------------------------- library
temp_source_name == <<"__BOOLSHAPES_SOURCE_TEMP__">>

\* Data-blocks left in bpy.data by a call that did not reach its clean-up:
\* one object per name, linked to no collection.
RECURSIVE Orphans(_, _)
Orphans(objs, names) ==
    IF names = {}
    THEN objs
    ELSE LET n == CHOOSE x \in names : TRUE
             free == Ids \ DOMAIN objs
             id == CHOOSE i \in free : \A j \in free : i <= j
             obj == [name |-> n,
                     users_collection |-> {},
                     display_type |-> "TEXTURED",
                     location |-> Origin,
                     modifiers |-> <<>>]
         IN Orphans((id :> obj) @@ objs, names \ {n})

\* Where add_shape_to_library can raise after it renamed the source: while
\* copying the mesh, while loading the existing shapes, while writing.
AddRaises == {"none", "copy", "load", "write"}

restore_name_skip(objs, obj, original_name) == objs

\* finally: obj.name = original_name
restore_name(objs, obj, original_name) ==
    [objs EXCEPT ![obj].name =
        UniqueName(original_name, NamesOf([i \in (DOMAIN objs) \ {obj} |-> objs[i]]))]

\* add_shape_to_library(obj) as a function of the state: the library file,
\* the session objects and the directories it leaves, and what it returns.
\* `raises` names the step that raises, "none" for a call that returns.  The
\* geometry of the copy (mesh data, applied scale) is not part of the state:
\* a library is the set of the names of its shapes.
AddShape(obj, raises) ==
    LET original_name == objects[obj].name
        existing_object_names == get_library_objects
        others == NamesOf([i \in Live \ {obj} |-> objects[i]])
        out == [assets |-> assets, objects |-> objects, dirs |-> dirs \cup {"assets"},
                ok |-> FALSE, msg |-> <<>>, raised |-> FALSE]
    IN IF original_name \in existing_object_names
       THEN [out EXCEPT !.msg = <<"Object '">> \o original_name
                                    \o <<"' already exists in library">>]
       ELSE LET \* obj.name = temp_source_name
                temp == UniqueName(temp_source_name, others)
                renamed == [objects EXCEPT ![obj].name = temp]
                \* bpy.data.objects.new(original_name, mesh_copy)
                new_name == UniqueName(original_name, others \cup {temp})
                \* the existing shapes, appended to the session
                loaded == IF assets.exists /\ existing_object_names # {}
                          THEN LoadedNames(existing_object_names,
                                           others \cup {temp, new_name})
                          ELSE {}
            IN IF raises = "copy"
               THEN [out EXCEPT !.raised = TRUE,
                                !.objects = restore_name(renamed, obj, original_name)]
               ELSE IF raises = "load"
               THEN \* new_obj is not removed
                    [out EXCEPT !.raised = TRUE,
                                !.objects = restore_name(Orphans(renamed, {new_name}),
                                                         obj, original_name)]
               ELSE IF raises = "write"
               THEN \* neither new_obj nor the loaded shapes are removed
                    [out EXCEPT !.raised = TRUE,
                                !.objects = restore_name(
                                                Orphans(renamed, {new_name} \cup loaded),
                                                obj, original_name)]
               ELSE \* written; the copies are removed again
                    [out EXCEPT !.ok = TRUE,
                                !.msg = <<"Added '">> \o original_name
                                            \o <<"' to library">>,
                                !.assets = File({new_name} \cup loaded),
                                !.objects = restore_name(renamed, obj, original_name)]

\* The bound on objects leaves room for what a raising call leaves behind,
\* and the step named by raises is one the call reaches.
CanAdd(obj, raises) ==
    LET fresh == objects[obj].name \notin get_library_objects
        loads == assets.exists /\ get_library_objects # {}
    IN /\ raises # "none" => fresh
       /\ raises = "load" => loads
       /\ Cardinality(Live) + (CASE raises = "load" -> 1
                                 [] raises = "write" -> 1 + Cardinality(get_library_objects)
                                 [] OTHER -> 0) <= MaxObjects

\* add_shape_to_library(obj)
add_shape_to_library(obj, raises) ==
    LET out == AddShape(obj, raises)
    IN /\ CanAdd(obj, raises)
       /\ dirs' = out.dirs
       /\ assets' = out.assets
       /\ objects' = out.objects
       /\ Returned([op |-> "add_shape_to_library", obj |-> obj,
                    name |-> objects[obj].name, raises |-> raises,
                    ok |-> out.ok, msg |-> out.msg, raised |-> out.raised])
       /\ UNCHANGED <<backup, previews, selected, active, collections, scenes,
                      windowScene, hasWindow, solver_type>>

remove_shape_from_library_eager(shape_name) ==
    LET all_objects == get_library_objects
        call == [op |-> "remove_shape_from_library", shape_name |-> shape_name]
    IN /\ previews' = previews \ {preview_path(shape_name)}
       /\ IF ~assets.exists
          THEN /\ Returned(call @@ [ok |-> FALSE,
                                    msg |-> <<"Library file does not exist">>])
               /\ UNCHANGED assets
          ELSE IF shape_name \notin all_objects
          THEN /\ Returned(call @@ [ok |-> FALSE,
                      msg |-> <<"Object '">> \o shape_name \o <<"' not found in library">>])
               /\ UNCHANGED assets
          ELSE /\ assets' = File(LoadedNames(all_objects \ {shape_name}, SessionNames))
               /\ Returned(call @@ [ok |-> TRUE,
                      msg |-> <<"Removed '">> \o shape_name \o <<"' from library">>])
       /\ UNCHANGED <<dirs, backup, objects, selected, active, collections, scenes,
                      windowScene, hasWindow, solver_type>>

\* remove_shape_from_library(shape_name)
remove_shape_from_library(shape_name) ==
    LET all_objects == get_library_objects
        objects_to_keep == all_objects \ {shape_name}
        call == [op |-> "remove_shape_from_library", shape_name |-> shape_name]
    IN /\ IF ~assets.exists
          THEN /\ Returned(call @@ [ok |-> FALSE,
                                    msg |-> <<"Library file does not exist">>])
               /\ UNCHANGED <<assets, previews>>
          ELSE IF shape_name \notin all_objects
          THEN /\ Returned(call @@ [ok |-> FALSE,
                      msg |-> <<"Object '">> \o shape_name \o <<"' not found in library">>])
               /\ UNCHANGED <<assets, previews>>
          ELSE IF objects_to_keep = {}
          THEN \* os.remove, then an empty library is written; early return
               /\ assets' = File({})
               /\ Returned(call @@ [ok |-> TRUE,
                      msg |-> <<"Removed '">> \o shape_name
                                  \o <<"' from library (library now empty)">>])
               /\ UNCHANGED previews
          ELSE \* the kept shapes are appended to the session, the file is
               \* deleted and written again from them
               /\ assets' = File(LoadedNames(objects_to_keep, SessionNames))
               /\ previews' = previews \ {preview_path(shape_name)}
               /\ Returned(call @@ [ok |-> TRUE,
                      msg |-> <<"Removed '">> \o shape_name \o <<"' from library">>])
       /\ UNCHANGED <<dirs, backup, objects, selected, active, collections, scenes,
                      windowScene, hasWindow, solver_type>>

reset_library_unchecked ==
    /\ previews' = IF "previews" \in dirs THEN DeletePngs(previews) ELSE previews
    /\ assets' = backup
    /\ Returned([op |-> "reset_library", ok |-> backup.exists,
                 msg |-> IF backup.exists THEN <<"Library reset to defaults">>
                         ELSE <<"Backup file does not exist">>])
    /\ UNCHANGED <<dirs, backup, objects, selected, active, collections, scenes,
                   windowScene, hasWindow, solver_type>>

\* reset_library()
reset_library_nocopy ==
    LET call == [op |-> "reset_library"]
    IN /\ IF ~backup.exists
          THEN /\ Returned(call @@ [ok |-> FALSE,
                                    msg |-> <<"Backup file does not exist">>])
               /\ UNCHANGED <<assets, previews>>
          ELSE /\ previews' = IF "previews" \in dirs
                              THEN {f \in previews : ~(Len(f) > 0 /\ f[Len(f)] = ".png")}
                              ELSE previews
               /\ assets' = NoFile
               /\ Returned(call @@ [ok |-> TRUE, msg |-> <<"Library reset to defaults">>])
       /\ UNCHANGED <<dirs, backup, objects, selected, active, collections, scenes,
                      windowScene, hasWindow, solver_type>>

reset_library ==
    LET call == [op |-> "reset_library"]
    IN /\ IF ~backup.exists
          THEN /\ Returned(call @@ [ok |-> FALSE,
                                    msg |-> <<"Backup file does not exist">>])
               /\ UNCHANGED <<assets, previews>>
          ELSE /\ previews' = IF "previews" \in dirs
                              THEN DeletePngs(previews) ELSE previews
               \* shutil.copy2(backup_path, assets_path)
               /\ assets' = backup
               /\ Returned(call @@ [ok |-> TRUE, msg |-> <<"Library reset to defaults">>])
       /\ UNCHANGED <<dirs, backup, objects, selected, active, collections, scenes,
                      windowScene, hasWindow, solver_type>>

\* ---------------------------------------------------------------- previews
preview_scene_name == <<"BoolShapes_Preview_Scene">>

\* What one preview generation reads and writes.
PreviewState ==
    [dirs |-> dirs, assets |-> assets, previews |-> previews, scenes |-> scenes,
     windowScene |-> windowScene, objects |-> objects, path |-> <<>>]

\* The handler of `except Exception`: the original scene is restored and the
\* preview scene removed, both inside one try whose failure is swallowed.  In
\* background mode the first assignment raises and the removal is skipped.
RestoreAfterException(st, original_scene, preview_scene) ==
    IF hasWindow
    THEN [st EXCEPT !.windowScene = original_scene,
                    !.scenes = st.scenes \ {preview_scene}]
    ELSE st

\* generate_preview_for_shape(shape_name) from the state st; `raises` says
\* whether setting up or rendering the scene raises.  path is the returned
\* preview path, <<>> for None.  Of the data-blocks an exception leaves
\* behind only the appended shape object is kept (it holds a shape's name);
\* the camera and the lights are read by nothing in the add-on.
GenPreview(st, shape_name, raises) ==
    IF ~st.assets.exists
    THEN [st EXCEPT !.path = <<>>]
    ELSE LET original_scene == st.windowScene
             preview_scene == UniqueName(preview_scene_name, st.scenes)
             s1 == [st EXCEPT !.dirs = st.dirs \cup {"previews"},
                              !.scenes = st.scenes \cup {preview_scene},
                              !.path = <<>>]
         IN IF ~hasWindow
            THEN \* bpy.context.window.scene = preview_scene raises
                 RestoreAfterException(s1, original_scene, preview_scene)
            ELSE LET s2 == [s1 EXCEPT !.windowScene = preview_scene]
                 IN IF shape_name \notin st.assets.objects
                    THEN [s2 EXCEPT !.windowScene = original_scene,
                                    !.scenes = s2.scenes \ {preview_scene}]
                    ELSE IF raises
                    THEN \* the appended object stays in bpy.data, linked to
                         \* no collection once the preview scene is gone
                         LET id == CHOOSE i \in Ids \ DOMAIN s2.objects : TRUE
                             obj == [name |-> UniqueName(shape_name, NamesOf(s2.objects)),
                                     users_collection |-> {},
                                     display_type |-> "TEXTURED",
                                     location |-> Origin,
                                     modifiers |-> <<>>]
                         IN RestoreAfterException(
                                [s2 EXCEPT !.objects = (id :> obj) @@ s2.objects],
                                original_scene, preview_scene)
                    ELSE [s2 EXCEPT !.previews = s2.previews \cup {preview_path(shape_name)},
                                    !.windowScene = original_scene,
                                    !.scenes = s2.scenes \ {preview_scene},
                                    !.path = preview_path(shape_name)]

\* The bounds leave room for what the failing generations leave behind.
RoomFor(nShapes, nRaising) ==
    /\ hasWindow \/ Cardinality(scenes) + nShapes <= MaxScenes
    /\ Cardinality(Live) + nRaising <= MaxObjects

SetPreviewState(st) ==
    /\ dirs' = st.dirs
    /\ previews' = st.previews
    /\ scenes' = st.scenes
    /\ windowScene' = st.windowScene
    /\ objects' = st.objects

\* generate_preview_for_shape(shape_name)
generate_preview_for_shape(shape_name, raises) ==
    /\ RoomFor(1, IF raises THEN 1 ELSE 0)
    /\ LET st == GenPreview(PreviewState, shape_name, raises)
       IN /\ SetPreviewState(st)
          /\ Returned([op |-> "generate_preview_for_shape", shape_name |-> shape_name,
                       raises |-> raises, path |-> st.path])
    /\ UNCHANGED <<assets, backup, selected, active, collections, hasWindow, solver_type>>

\* The loop `for obj_name in objects: if generate_preview_for_shape(obj_name):
\* generated += 1` over the shapes `names`, from the state st; `raising` are
\* the shapes whose generation raises.
RECURSIVE GenerateEach(_, _, _)
GenerateEach(st, names, raising) ==
    IF names = {}
    THEN [st |-> st, generated |-> 0]
    ELSE LET n == CHOOSE x \in names : TRUE
             s1 == GenPreview(st, n, n \in raising)
             rest == GenerateEach(s1, names \ {n}, raising)
         IN [st |-> rest.st,
             generated |-> rest.generated + (IF s1.path # <<>> THEN 1 ELSE 0)]

\* refresh_all_previews()
refresh_all_previews(raising) ==
    /\ RoomFor(Cardinality(get_library_objects), Cardinality(raising))
    /\ LET st0 == [PreviewState EXCEPT
                      !.previews = IF "previews" \in dirs
                                   THEN DeletePngs(previews) ELSE previews]
           run == GenerateEach(st0, get_library_objects, raising)
       IN /\ SetPreviewState(run.st)
          /\ Returned([op |-> "refresh_all_previews", generated |-> run.generated,
                       raising |-> raising])
    /\ UNCHANGED <<assets, backup, selected, active, collections, hasWindow, solver_type>>

NeedsPreview_all(files, names) == names

\* The shapes the loop of generate_all_previews does not skip: those with no
\* <name>.png in the previews directory.
NeedsPreview(files, names) == {n \in names : preview_path(n) \notin files}

\* generate_all_previews()
generate_all_previews(raising) ==
    LET todo == NeedsPreview(previews, get_library_objects)
    IN /\ RoomFor(Cardinality(todo), Cardinality(raising \cap todo))
       /\ LET run == GenerateEach(PreviewState, todo, raising)
          IN /\ SetPreviewState(run.st)
             /\ Returned([op |-> "generate_all_previews", generated |-> run.generated,
                          raising |-> raising])
       /\ UNCHANGED <<assets, backup, selected, active, collections, hasWindow,
                      solver_type>>

\* ------------------------------------------- remove_shape_from_library, by step
\* The library accesses of remove_shape_from_library one at a time, for a
\* call that keeps at least one shape.  While the call runs, last is its
\* frame: op names the access made last, keep maps each shape to keep to the
\* name its appended copy got in the session.
RemoveFrames ==
    {"remove_shape_from_library.loaded", "remove_shape_from_library.deleted",
     "remove_shape_from_library.written"}

InProgress == last.op \in RemoveFrames

\* bpy.data.libraries.load(..., link=False) of the shapes `names`: the name
\* each copy gets, in the order of LoadedNames.
RECURSIVE LoadedAs(_, _)
LoadedAs(names, taken) ==
    IF names = {}
    THEN <<>>
    ELSE LET n == CHOOSE x \in names : TRUE
             u == UniqueName(n, taken)
         IN (n :> u) @@ LoadedAs(names \ {n}, taken \cup {u})

remove_load_delete_first(shape_name) ==
    /\ assets.exists /\ shape_name \in assets.objects /\ assets.objects # {shape_name}
    /\ assets' = NoFile
    /\ Returned([op |-> "remove_shape_from_library.deleted", shape_name |-> shape_name,
                 keep |-> LoadedAs(assets.objects \ {shape_name}, SessionNames)])
    /\ UNCHANGED <<dirs, backup, previews, objects, selected, active, collections,
                   scenes, windowScene, hasWindow, solver_type>>

\* The checks passed and the shapes to keep were appended to the session.
remove_load(shape_name) ==
    LET objects_to_keep == get_library_objects \ {shape_name}
        keep == LoadedAs(objects_to_keep, SessionNames)
    IN /\ assets.exists /\ shape_name \in assets.objects /\ objects_to_keep # {}
       /\ Cardinality(Live) + Cardinality(objects_to_keep) <= MaxObjects
       /\ objects' = Orphans(objects, {keep[n] : n \in objects_to_keep})
       /\ Returned([op |-> "remove_shape_from_library.loaded",
                    shape_name |-> shape_name, keep |-> keep])
       /\ UNCHANGED <<dirs, assets, backup, previews, selected, active, collections,
                      scenes, windowScene, hasWindow, solver_type>>

\* os.remove(assets_path)
remove_delete ==
    /\ last.op = "remove_shape_from_library.loaded"
    /\ assets' = NoFile
    /\ last' = [last EXCEPT !.op = "remove_shape_from_library.deleted"]
    /\ UNCHANGED <<dirs, backup, previews, objects, selected, active, collections,
                   scenes, windowScene, hasWindow, solver_type, calls>>

\* bpy.data.libraries.write(assets_path, set(imported_objects)); when it
\* raises the call is over and the appended copies stay in the session.
remove_write(raises) ==
    /\ last.op = "remove_shape_from_library.deleted"
    /\ IF raises
       THEN /\ last' = [last EXCEPT !.op = "remove_shape_from_library.raised"]
            /\ UNCHANGED assets
       ELSE /\ assets' = File({last.keep[n] : n \in DOMAIN last.keep})
            /\ last' = [last EXCEPT !.op = "remove_shape_from_library.written"]
    /\ UNCHANGED <<dirs, backup, previews, objects, selected, active, collections,
                   scenes, windowScene, hasWindow, solver_type, calls>>

\* The appended copies are removed from the session, the preview image is
\* deleted and the call returns.
remove_return ==
    /\ last.op = "remove_shape_from_library.written"
    /\ objects' = [i \in {j \in Live : \A n \in DOMAIN last.keep :
                                        objects[j].name # last.keep[n]} |-> objects[i]]
    /\ previews' = previews \ {preview_path(last.shape_name)}
    /\ last' = [last EXCEPT !.op = "remove_shape_from_library.returned"]
    /\ UNCHANGED <<dirs, assets, backup, selected, active, collections, scenes,
                   windowScene, hasWindow, solver_type, calls>>

\* ------------------------------------------------------------- registration
restore_from_backup_always(file, bak) == IF bak.exists THEN bak ELSE file

\* if not os.path.exists(assets_path) and os.path.exists(backup_path):
\*     shutil.copy2(backup_path, assets_path)
restore_from_backup(file, bak) == IF ~file.exists /\ bak.exists THEN bak ELSE file

\* ensure_assets_exist(), the first thing register() does
ensure_assets_exist ==
    /\ dirs' = dirs \cup {"assets", "previews"}
    /\ assets' = restore_from_backup(assets, backup)
    /\ Returned([op |-> "ensure_assets_exist"])
    /\ UNCHANGED <<backup, previews, objects, selected, active, collections, scenes,
                   windowScene, hasWindow, solver_type>>

\* ---------------------------------------------------------------- operators
PreviewAfterAdd_always(out, obj, raises) ==
    GenPreview([PreviewState EXCEPT !.dirs = out.dirs, !.assets = out.assets,
                                    !.objects = out.objects],
               out.objects[obj].name, raises)

\* `if success:` of BOOLSHAPES_OT_add_to_library.execute: a preview of
\* obj.name is generated from the state add_shape_to_library left.
PreviewAfterAdd(out, obj, raises) ==
    LET st == [PreviewState EXCEPT !.dirs = out.dirs, !.assets = out.assets,
                                   !.objects = out.objects]
    IN IF out.ok
       THEN GenPreview(st, out.objects[obj].name, raises)
       ELSE st

\* BOOLSHAPES_OT_add_to_library.execute: the active object is added to the
\* library.  result is the returned set, "RAISED" when add_shape_to_library
\* raised and the operator with it.
add_to_library_execute(raises, preview_raises) ==
    IF active = 0
    THEN /\ raises = "none" /\ ~preview_raises
         /\ Returned([op |-> "boolshapes.add_to_library", obj |-> 0,
                      result |-> "CANCELLED", msg |-> <<"No active object">>])
         /\ UNCHANGED <<dirs, assets, backup, previews, objects, selected, active,
                        collections, scenes, windowScene, hasWindow, solver_type>>
    ELSE LET obj == active
             out == AddShape(obj, raises)
             st == PreviewAfterAdd(out, obj, preview_raises)
         IN /\ CanAdd(obj, raises)
            /\ IF out.ok THEN RoomFor(1, IF preview_raises THEN 1 ELSE 0)
                         ELSE ~preview_raises
            /\ SetPreviewState(st)
            /\ assets' = st.assets
            /\ Returned([op |-> "boolshapes.add_to_library", obj |-> obj,
                         result |-> IF out.raised THEN "RAISED"
                                    ELSE IF out.ok THEN "FINISHED" ELSE "CANCELLED",
                         msg |-> out.msg])
            /\ UNCHANGED <<backup, selected, active, collections, hasWindow,
                           solver_type>>

NextBool ==
    \/ \E n \in get_library_objects : import_shape_from_library(n)
    \/ \E t, c \in InViewLayer(objects), op \in Operations, d \in BOOLEAN,
          s \in {"None", "FAST"} : apply_boolean_operation(t, c, op, d, s)
    \/ \E t, c \in InViewLayer(objects), d \in BOOLEAN, s \in {"None", "FAST"} :
          apply_slice_operation(t, c, d, s)

Next ==
    \/ \E n \in get_library_objects \cup DefaultShapes : import_shape_from_library(n)
    \/ \E o \in InViewLayer(objects) : add_shape_to_library(o, "none")
    \/ \E n \in get_library_objects \cup DefaultShapes : remove_shape_from_library(n)
    \/ reset_library
    \/ \E n \in get_library_objects \cup DefaultShapes, r \in BOOLEAN :
          generate_preview_for_shape(n, r)
    \/ \E r \in SUBSET get_library_objects : refresh_all_previews(r)
    \/ \E r \in SUBSET get_library_objects : generate_all_previews(r)

Spec == Init /\ [][Next]_vars

\* The boolean operations on a session filled from the default library.
SpecBool == InitBool /\ [][NextBool]_vars

\* The library operators and the functions under them, with the calls of
\* add_shape_to_library that raise.
NextOps ==
    \/ \E n \in get_library_objects \cup DefaultShapes : import_shape_from_library(n)
    \/ \E o \in InViewLayer(objects), r \in AddRaises : add_shape_to_library(o, r)
    \/ \E r \in AddRaises, p \in BOOLEAN : add_to_library_execute(r, p)
    \/ \E n \in get_library_objects \cup DefaultShapes : remove_shape_from_library(n)
    \/ reset_library
    \/ ensure_assets_exist

SpecOps == Init /\ [][NextOps]_vars

\* remove_shape_from_library step by step; nothing else runs while a call is
\* in progress.
NextSteps ==
    \/ ~InProgress /\ \E n \in get_library_objects : import_shape_from_library(n)
    \/ ~InProgress /\ \E o \in InViewLayer(objects) : add_shape_to_library(o, "none")
    \/ ~InProgress /\ \E n \in get_library_objects : remove_load(n)
    \/ remove_delete
    \/ \E r \in BOOLEAN : remove_write(r)
    \/ remove_return

SpecSteps == Init /\ [][NextSteps]_vars

\* ---------------------------------------------------------------- claims
\* The step just taken is a call of `op`.
Called(op) == calls' = calls + 1 /\ last'.op = op

Pngs(files) == {f \in files : endswith_png(f)}

\* C1: add_shape_to_library(obj), called when obj.name is not a shape of the
\* library, returns success and leaves the library holding exactly the shape
\* names it held before plus obj.name, whatever objects the session holds.
C1_AddKeepsEveryShape ==
    [][(/\ Called("add_shape_to_library")
        /\ ~last'.raised
        /\ objects[last'.obj].name \notin get_library_objects)
       => /\ last'.ok
          /\ assets'.exists
          /\ assets'.objects = get_library_objects \cup {objects[last'.obj].name}]_vars

\* C2: remove_shape_from_library(name), called when name is a shape of the
\* library, returns success and leaves the library file existing and holding
\* exactly the previous shape names minus name.
C2_RemoveKeepsOtherShapes ==
    [][(/\ Called("remove_shape_from_library")
        /\ last'.shape_name \in get_library_objects)
       => /\ last'.ok
          /\ assets'.exists
          /\ assets'.objects = get_library_objects \ {last'.shape_name}]_vars

\* C3: after remove_shape_from_library(name) returned success, the preview
\* image <name>.png is not in the previews directory.
C3_RemoveDeletesPreview ==
    (last.op = "remove_shape_from_library" /\ last.ok)
        => preview_path(last.shape_name) \notin previews

\* C4: reset_library(), called when the backup exists, returns
\* (True, 'Library reset to defaults'); afterwards assets.blend holds exactly
\* the shapes of the backup and the previews directory holds no .png file.
C4_ResetRestoresBackup ==
    (last.op = "reset_library" /\ backup.exists)
        => /\ last.ok
           /\ last.msg = <<"Library reset to defaults">>
           /\ assets.exists
           /\ assets.objects = backup.objects
           /\ Pngs(previews) = {}

\* C4 witness: reset as the first call, from a previews directory that held
\* Old.png and notes.txt.
C4_Witness ==
    /\ last.op = "reset_library"
    /\ last.ok
    /\ calls = 1
    /\ previews = {<<"notes", ".txt">>}

\* C5: import_shape_from_library(name), called when name is a shape of the
\* library, returns a new object linked to the scene collection that is the
\* only selected object and the active object, displayed TEXTURED and located
\* at the 3D cursor; assets.blend is not changed.
C5_ImportSelectsTheShape ==
    [][(/\ Called("import_shape_from_library")
        /\ last'.shape_name \in get_library_objects)
       => LET o == last'.obj
          IN /\ o \in DOMAIN objects'
             /\ o \notin DOMAIN objects
             /\ "Scene Collection" \in objects'[o].users_collection
             /\ selected' = {o}
             /\ active' = o
             /\ objects'[o].display_type = "TEXTURED"
             /\ objects'[o].location = cursor_location
             /\ assets' = assets]_vars

\* C5 witness: a shape imported while an earlier object was in the scene.
C5_Witness ==
    /\ last.op = "import_shape_from_library"
    /\ last.obj # 0
    /\ \E i \in InViewLayer(objects) : i # last.obj
    /\ selected = {last.obj}

\* The modifier at the end of a stack is a boolean `operation` against
\* `cutter` solved by `solver`.
LastModIs(mods, operation, cutter, solver) ==
    /\ Len(mods) > 0
    /\ mods[Len(mods)].operation = operation
    /\ mods[Len(mods)].object = cutter
    /\ mods[Len(mods)].solver = solver

\* The cutter is alive, linked to boolean_cutters alone and shown as bounds.
IsParkedCutter(objs, cols, cutter) ==
    /\ cutter \in DOMAIN objs
    /\ "boolean_cutters" \in cols
    /\ objs[cutter].users_collection = {"boolean_cutters"}
    /\ objs[cutter].display_type = "BOUNDS"

\* C6: apply_boolean_operation(target, cutter, op, destructive=False) adds
\* exactly one modifier to target, a boolean op against cutter with the
\* scene's solver_type or the given solver; the cutter survives, linked to
\* boolean_cutters and to no other collection, with display type BOUNDS; the
\* call returns success.
C6_NonDestructiveBoolean ==
    [][(Called("apply_boolean_operation") /\ ~last'.destructive)
       => LET t == last'.target
              c == last'.cutter
              solver == IF last'.solver = "None" THEN solver_type ELSE last'.solver
          IN /\ last'.ok
             /\ Len(objects'[t].modifiers) = Len(objects[t].modifiers) + 1
             /\ SubSeq(objects'[t].modifiers, 1, Len(objects[t].modifiers))
                    = objects[t].modifiers
             /\ LastModIs(objects'[t].modifiers, last'.operation, c, solver)
             /\ IsParkedCutter(objects', collections', c)
             /\ DOMAIN objects' = DOMAIN objects]_vars

\* C6 witness: a second non-destructive boolean on a target, with a cutter
\* that came from the scene collection.
C6_Witness ==
    /\ last.op = "apply_boolean_operation"
    /\ ~last.destructive
    /\ last.ok
    /\ last.solver = "FAST"
    /\ Len(objects[last.target].modifiers) = 2
    /\ IsParkedCutter(objects, collections, last.cutter)

\* C7: apply_boolean_operation(target, cutter, op, destructive=True) that
\* returns success has removed the cutter from the session and applied the
\* modifier it added: that modifier is not on target's stack any more, and no
\* modifier of target references the cutter.
C7_DestructiveAppliesItsModifier ==
    (last.op = "apply_boolean_operation" /\ last.destructive /\ last.ok)
        => /\ last.cutter \notin Live
           /\ last.added \notin ModNames(objects[last.target].modifiers)
           /\ \A k \in 1..Len(objects[last.target].modifiers) :
                  objects[last.target].modifiers[k].object # last.cutter

\* C8 as stated: the object apply_slice_operation creates is named
\* target.name + '_slice'.
C8_SliceNameAsStated ==
    [][Called("apply_slice_operation")
       => /\ DOMAIN objects' \ DOMAIN objects = {last'.copy}
          /\ objects'[last'.copy].name = objects[last'.target].name \o <<"_slice">>]_vars

\* C8, amended: apply_slice_operation(target, cutter) creates exactly one new
\* object, linked to the scene collection and named target.name + '_slice',
\* or that name with a numeric suffix that makes it unique when an object of
\* that name exists already.  In non-destructive mode the new object carries
\* an INTERSECT modifier and target a DIFFERENCE modifier, each added at the
\* end of its stack, against the cutter and with the same solver; the cutter
\* survives, linked to boolean_cutters alone, displayed as BOUNDS.  In
\* destructive mode both modifiers have been applied and the cutter removed.
C8_Slice ==
    [][Called("apply_slice_operation")
       => LET t == last'.target
              c == last'.cutter
              n == last'.copy
              wanted == objects[t].name \o <<"_slice">>
              solver == IF last'.solver = "None" THEN solver_type ELSE last'.solver
              inherited == Len(objects[t].modifiers)
          IN /\ last'.ok
             /\ DOMAIN objects' \ DOMAIN objects = {n}
             /\ objects'[n].name \notin SessionNames
             /\ IF wanted \in SessionNames
                THEN /\ NameStem(objects'[n].name) = wanted
                     /\ objects'[n].name # wanted
                ELSE objects'[n].name = wanted
             /\ objects'[n].users_collection = {"Scene Collection"}
             /\ IF last'.destructive
                THEN /\ c \notin DOMAIN objects'
                     /\ Len(objects'[n].modifiers) = inherited
                     /\ Len(objects'[t].modifiers) = inherited
                ELSE /\ Len(objects'[n].modifiers) = inherited + 1
                     /\ Len(objects'[t].modifiers) = inherited + 1
                     /\ LastModIs(objects'[n].modifiers, "INTERSECT", c, solver)
                     /\ LastModIs(objects'[t].modifiers, "DIFFERENCE", c, solver)
                     /\ IsParkedCutter(objects', collections', c)]_vars

\* C8 witness: a second slice of the same target, the name target_slice taken.
C8_Witness ==
    /\ last.op = "apply_slice_operation"
    /\ ~last.destructive
    /\ Len(objects[last.copy].name) > 1
    /\ IsSuffix(objects[last.copy].name[Len(objects[last.copy].name)])
    /\ NameStem(objects[last.copy].name) \in SessionNames
    /\ IsParkedCutter(objects, collections, last.cutter)

\* C9: on every return path of generate_preview_for_shape(name) the current
\* scene is the scene that was current when the call started and the
\* temporary scene the call created is gone.
C9_PreviewSceneIsTemporary ==
    [][Called("generate_preview_for_shape")
       => /\ windowScene' = windowScene
          /\ scenes' = scenes]_vars

C11_GenerateOnlyMissing ==
    [][Called("generate_all_previews")
       => LET missing == {n \in get_library_objects : preview_path(n) \notin previews}
              made == {n \in missing : preview_path(n) \in previews'}
          IN /\ previews' = previews \cup {preview_path(n) : n \in made}
             /\ last'.generated = Cardinality(made)
             /\ \A n \in missing : (n \in made) <=> (hasWindow /\ n \notin last'.raising)
             \* what the attempts leave behind counts the attempts
             /\ IF hasWindow
                THEN Cardinality(DOMAIN objects') - Cardinality(DOMAIN objects)
                         = Cardinality(last'.raising \cap missing)
                ELSE Cardinality(scenes') - Cardinality(scenes) = Cardinality(missing)]_vars

\* C11 witness: of the two shapes of the library Cube had a preview and
\* Cylinder had none; one preview was generated.
C11_Witness ==
    /\ last.op = "generate_all_previews"
    /\ calls = 1
    /\ last.generated = 1
    /\ last.raising = {<<"Cube">>}
    /\ previews = {<<"Cube", ".png">>, <<"Cylinder", ".png">>}

\* C12: add_shape_to_library renames the source object for the time of the
\* call; whenever the call got as far as that rename (the name was not in
\* the library), the source carries its original name when the call is
\* over, whether it returned or raised while copying, loading or writing.
C12_SourceNameRestored ==
    [][(/\ Called("add_shape_to_library")
        /\ objects[last'.obj].name \notin get_library_objects)
       => objects'[last'.obj].name = objects[last'.obj].name]_vars

\* C13: add_shape_to_library(obj), called when obj.name is a shape of the
\* library, returns (False, "Object '<name>' already exists in library") and
\* changes neither the library file nor the source's name nor the objects
\* of the session; the operator boolshapes.add_to_library then returns
\* CANCELLED and no preview is generated (no file, scene or object appears).
C13_AddExistingChangesNothing ==
    [][/\ (/\ Called("add_shape_to_library")
           /\ objects[last'.obj].name \in get_library_objects)
          => /\ ~last'.ok /\ ~last'.raised
             /\ last'.msg = <<"Object '">> \o objects[last'.obj].name
                                \o <<"' already exists in library">>
             /\ UNCHANGED <<assets, objects, previews, scenes, windowScene, dirs>>
       /\ (/\ Called("boolshapes.add_to_library")
           /\ active # 0
           /\ objects[active].name \in get_library_objects)
          => /\ last'.result = "CANCELLED"
             /\ last'.msg = <<"Object '">> \o objects[active].name
                                \o <<"' already exists in library">>
             /\ UNCHANGED <<assets, objects, previews, scenes, windowScene, dirs>>]_vars

\* C13 witness: the operator was cancelled for the active object Cube, a
\* shape of the library that has no preview.
C13_Witness ==
    /\ last.op = "boolshapes.add_to_library"
    /\ last.result = "CANCELLED"
    /\ last.obj # 0
    /\ objects[last.obj].name = <<"Cube">>
    /\ <<"Cube">> \in get_library_objects
    /\ <<"Cube", ".png">> \notin previews

\* C14: remove_shape_from_library(name) returns (False, 'Library file does
\* not exist') when assets.blend is missing and (False, "Object '<name>' not
\* found in library") when name is not a shape of the library; in both cases
\* the library file and the previews directory are as they were.
C14_RemoveFailureChangesNothing ==
    [][(/\ Called("remove_shape_from_library")
        /\ last'.shape_name \notin get_library_objects)
       => /\ ~last'.ok
          /\ last'.msg = IF ~assets.exists
                         THEN <<"Library file does not exist">>
                         ELSE <<"Object '">> \o last'.shape_name
                                  \o <<"' not found in library">>
          /\ UNCHANGED <<assets, previews, dirs>>]_vars

\* C14 witness: a name that is not in the existing library was refused while
\* its preview file lies in the previews directory.
C14_Witness ==
    /\ last.op = "remove_shape_from_library"
    /\ ~last.ok
    /\ last.msg = <<"Object '">> \o last.shape_name \o <<"' not found in library">>
    /\ assets.exists
    /\ preview_path(last.shape_name) \in previews

\* C15: reset_library(), called when the backup file is missing, returns
\* (False, 'Backup file does not exist') and leaves assets.blend and every
\* preview file as they were.
C15_ResetWithoutBackupChangesNothing ==
    [][(Called("reset_library") /\ ~backup.exists)
       => /\ ~last'.ok
          /\ last'.msg = <<"Backup file does not exist">>
          /\ UNCHANGED <<assets, previews, backup, dirs>>]_vars

\* C15 witness: reset was refused for want of a backup while a library and a
\* preview image exist.
C15_Witness ==
    /\ last.op = "reset_library"
    /\ ~last.ok
    /\ ~backup.exists
    /\ assets.exists
    /\ Pngs(previews) # {}

\* C16: ensure_assets_exist() copies the backup to assets.blend exactly when
\* assets.blend is absent and the backup exists; an assets.blend that exists
\* is left as it is; afterwards the assets directory and its previews
\* sub-directory exist.
C16_EnsureAssets ==
    [][Called("ensure_assets_exist")
       => /\ assets' = IF ~assets.exists /\ backup.exists THEN backup ELSE assets
          /\ assets.exists => assets' = assets
          /\ {"assets", "previews"} \subseteq dirs'
          /\ UNCHANGED <<backup, previews>>]_vars

\* C16 witness: registration found a library that differs from the backup and
\* left it alone.
C16_Witness ==
    /\ last.op = "ensure_assets_exist"
    /\ backup.exists
    /\ assets.exists
    /\ assets # backup

\* C17: remove_shape_from_library loads the shapes to keep before it deletes
\* the old library file and writes the file from them afterwards: from the
\* load to the return (or to the exception of a failed write) each shape to
\* keep is in the library file, under its name or the name it was written
\* under, or in the session, as the copy that was appended; and the file is
\* never deleted before the load.
C17_KeptShapesNeverLost ==
    last.op \in RemoveFrames \cup {"remove_shape_from_library.returned",
                                   "remove_shape_from_library.raised"}
    => \A n \in DOMAIN last.keep :
          \/ assets.exists /\ n \in assets.objects
                /\ last.op = "remove_shape_from_library.loaded"
          \/ assets.exists /\ last.keep[n] \in assets.objects
                /\ last.op \in {"remove_shape_from_library.written",
                                "remove_shape_from_library.returned"}
          \/ \E i \in Live : objects[i].name = last.keep[n]
                /\ objects[i].users_collection = {}

\* C17 witness: the old file is deleted, the new one not yet written, and
\* the two shapes to keep are in the session only.
C17_Witness ==
    /\ last.op = "remove_shape_from_library.deleted"
    /\ ~assets.exists
    /\ Cardinality(DOMAIN last.keep) = 2
    /\ \A n \in DOMAIN last.keep : last.keep[n] \in SessionNames
====
